---- MODULE Spec2Model ----
(***************************************************************************)
(* Model of backupmate's backup/restore orchestration:                     *)
(*   backupmate/backup.py   perform_full_backup, perform_incremental_backup*)
(*                          and the SQLite registry helpers                *)
(*   backupmate/restore.py  restore_specific_backup and its helpers        *)
(* The program is single threaded: one operation runs from start to end    *)
(* before the next begins (pc = "idle" between operations).  External      *)
(* collaborators (mariabackup, tar, S3, the file system, SQLite, the       *)
(* server control command) answer nondeterministically.                    *)
(***************************************************************************)
EXTENDS Integers, Sequences, FiniteSets, TLC

\* ---------------------------------------------------------------- bounds
\* The wall clock shows the seconds 0..MaxClock.
MaxClock == 1
\* Number of backup operations started in one behaviour.
MaxOps == 3
\* Number of removals (rmtree / os.remove) of the finally block that fail in
\* one behaviour.
MaxCleanupFailures == 1
\* Number of restore operations started in one behaviour.
MaxRestores == 2
\* Number of members of a tar archive given to decompress_archive.
MaxMembers == 2
\* Number of object keys under one prefix of the bucket, as a command line
\* invocation finds it.
MaxKeys == 2
\* longest directory name and archive file stem of the codec round trip
MaxStem == 2

VARIABLES
    clock,      \* the wall clock, in whole seconds (strftime %S, CURRENT_TIMESTAMP)
    nOps,       \* backup operations started so far
    pc,         \* position of the single thread of control
    op,         \* locals of the running backup operation
    registry,   \* rows of table backups, in insertion (id) order
    chain,      \* LOCAL_TEMP_DIR/chain: member directory -> what was copied in
    staging,    \* LOCAL_TEMP_DIR/<kind>_<ts> directories that exist
    archives,   \* LOCAL_TEMP_DIR/<kind>_<ts>.tar.gz files that exist
    remote,     \* the bucket: key -> operation whose archive it holds (0: none)
    uploaded,   \* operations whose s3.upload_file returned True
    nCleanupFailures,  \* removals of the finally block that have failed so far
    fullStarted,  \* perform_full_backup has been called
    nRestores,  \* restore operations started so far
    rs,         \* locals of the running restore operation
    rfiles,     \* what exists under the restore staging directory
    server,     \* the database server process
    datadir,    \* the server's data directories
    dz,         \* locals of the running decompress_archive call
    cli,        \* the running command line invocation (cli.main)
    rb          \* locals of the running mariadb.restore_backup call

backupVars == <<clock, nOps, op, registry, chain, staging, archives, remote, uploaded, nCleanupFailures, fullStarted>>
restoreVars == <<nRestores, rs, rfiles, server, datadir>>
codecVars == <<dz>>
cliVars == <<cli>>
adapterVars == <<rb>>
vars == <<pc, backupVars, restoreVars, codecVars, cliVars, adapterVars>>

\* ------------------------------------------------------------ naming
\* f'full_{timestamp}' / f'inc_{timestamp}': a directory name is the pair of
\* the prefix and the second the operation started in.
DirName(kind, ts) == [k |-> IF kind = "full" THEN "full" ELSE "inc", ts |-> ts]

NoPath == [k |-> "none", ts |-> 0]

\* config.get('FULL_BACKUP_PREFIX') / config.get('INCREMENTAL_BACKUP_PREFIX')
S3Prefix(kind) == IF kind = "full" THEN "FULL_BACKUP_PREFIX" ELSE "INCREMENTAL_BACKUP_PREFIX"

EmptyChain == [n \in {} |-> {}]

NoOp == [id |-> 0, kind |-> "none", ts |-> 0, base |-> NoPath, result |-> "none",
         calls |-> <<>>, appended |-> FALSE, priorFull |-> FALSE,
         registry0 |-> <<>>, chain0 |-> EmptyChain, raised |-> {}]

\* The locals computed at the top of perform_full_backup /
\* perform_incremental_backup, with the state the operation found.
NewOp(kind) ==
    [id |-> nOps + 1, kind |-> kind, ts |-> clock, base |-> NoPath, result |-> "none",
     calls |-> <<>>, appended |-> FALSE, priorFull |-> fullStarted,
     registry0 |-> registry, chain0 |-> chain, raised |-> {}]

temp_dir == DirName(op.kind, op.ts)
backup_dir == DirName(op.kind, op.ts)
compressed_file == DirName(op.kind, op.ts)

\* ------------------------------------------------------------ file system
Restrict(f, S) == [n \in S |-> f[n]]

\* os.makedirs(path, exist_ok=True) of a chain member
MakeDirs(c, n) == IF n \in DOMAIN c THEN c ELSE [m \in DOMAIN c \cup {n} |-> IF m = n THEN {} ELSE c[m]]

\* shutil.copytree(temp_dir, backup_dir, dirs_exist_ok=True): the content of
\* the staging directory of operation id is merged into member n
CopyTree(c, n, id) == [m \in DOMAIN c \cup {n} |-> IF m = n THEN (IF n \in DOMAIN c THEN c[n] ELSE {}) \cup {id} ELSE c[m]]

\* ------------------------------------------------------------ registry
\* INSERT INTO backups (backup_type, backup_prefix, local_path, status)
\* id is AUTOINCREMENT, timestamp DEFAULT CURRENT_TIMESTAMP
NewRecordWithoutPath(backup_type, backup_prefix, local_path) ==
    [id |-> Len(registry) + 1, backup_type |-> backup_type, backup_prefix |-> backup_prefix,
     local_path |-> [k |-> "none", ts |-> 0], timestamp |-> clock, status |-> "success", op |-> op.id]

NewRecord(backup_type, backup_prefix, local_path) ==
    [id |-> Len(registry) + 1, backup_type |-> backup_type, backup_prefix |-> backup_prefix,
     local_path |-> local_path, timestamp |-> clock, status |-> "success", op |-> op.id]

Rows == {registry[i] : i \in 1..Len(registry)}

\* SELECT local_path FROM backups WHERE local_path IS NOT NULL
\* ORDER BY timestamp DESC LIMIT 1: the rows the query may return first.
\* Rows with equal timestamp are in no specified order.
LatestRowsUnordered == {r \in Rows : r.local_path # NoPath}

LatestRows ==
    {r \in Rows : r.local_path # NoPath /\ \A s \in Rows : s.local_path # NoPath => s.timestamp <= r.timestamp}

\* list_backups_from_db: SELECT backup_type, backup_prefix, timestamp, status
\* FROM backups ORDER BY timestamp DESC.  A result is given by the order in
\* which it lists the rows (position -> row id); rows with equal timestamp
\* are in no specified order.
list_backups_from_db ==
    {f \in [1..Len(registry) -> 1..Len(registry)] :
        /\ \A i, j \in 1..Len(registry) : i # j => f[i] # f[j]
        /\ \A i, j \in 1..Len(registry) : i < j => registry[f[i]].timestamp >= registry[f[j]].timestamp}

\* ------------------------------------------------------------ restore locals
NoRestore == [method |-> "none", isTest |-> FALSE, prepared |-> FALSE, pending |-> "none",
              result |-> "none", calls |-> <<>>, polls |-> 0, server_started |-> FALSE]

NewRestore(method, isTest) == [NoRestore EXCEPT !.method = method, !.isTest = isTest]

\* ------------------------------------------------------------ decompress_archive locals
\* tar: the member names of the archive, each a sequence of characters;
\* checked: members the loop of line 66 has passed; extracted: members
\* written under the output directory by this call; name: the file name of
\* the archive; returned: the last component of the path returned.
NoDecompress == [tar |-> <<>>, checked |-> 0, extracted |-> {}, result |-> "none",
                 name |-> <<>>, returned |-> <<>>]

\* ------------------------------------------------------------ restore_backup locals
\* method: the method argument; configured: config has MARIADB_DATADIR;
\* i: position of the loop over dirs_to_clean; datadir0: the data
\* directories as the call found them; calls: the runs of the backup tool.
NoRb == [method |-> "none", configured |-> FALSE, i |-> 0, datadir0 |-> "none",
         calls |-> <<>>, result |-> "none"]

\* ------------------------------------------------------------ cli locals
\* The parsed arguments and the environment of one run of cli.main (backup_id
\* and the keys of the bucket are numbered in lexicographic order, 0: None),
\* the calls its handler made, the handler's result and the exit code.
NoCli == [command |-> "none", full |-> FALSE, backup_id |-> 0, latest_full |-> FALSE,
          latest_incremental |-> FALSE, move_back |-> FALSE, copy_back |-> FALSE,
          posix |-> TRUE, euid |-> 0, configValid |-> TRUE,
          objects |-> [k \in {"FULL_BACKUP_PREFIX", "INCREMENTAL_BACKUP_PREFIX"} |-> <<>>],
          calls |-> <<>>, success |-> "none", exit |-> 0 - 1]

Init ==
    /\ clock = 0
    /\ nOps = 0
    /\ pc = "idle"
    /\ op = NoOp
    /\ registry = <<>>
    /\ chain = EmptyChain
    /\ staging = {}
    /\ archives = {}
    /\ remote = [k \in {"FULL_BACKUP_PREFIX", "INCREMENTAL_BACKUP_PREFIX"} |-> 0]
    /\ uploaded = {}
    /\ nCleanupFailures = 0
    /\ fullStarted = FALSE
    /\ nRestores = 0
    /\ rs = NoRestore
    /\ rfiles = {}
    /\ server = "running"
    /\ datadir = "live"
    /\ dz = NoDecompress
    /\ cli = NoCli
    /\ rb = NoRb

\* Time passes.  The clock is read in two places only, datetime.now() at the
\* start of an operation and CURRENT_TIMESTAMP in the INSERT, so the seconds
\* that pass during the other steps are taken just before the next reading.
Tick ==
    /\ clock < MaxClock
    /\ pc \in {"idle", "record"}
    /\ clock' = clock + 1
    /\ UNCHANGED <<nOps, pc, op, registry, chain, staging, archives, remote, uploaded, nCleanupFailures, fullStarted>>
    /\ UNCHANGED <<restoreVars, codecVars, cliVars, adapterVars>>

\* ------------------------------------------------------------ steps
\* One collaborator call of the running operation: the call is logged, and the
\* operation either goes on to step next or leaves the try block with a result
\* (return True / return False / except Exception: return False), which sends
\* it to the finally block.
Called(call, ok) == [c |-> call, ok |-> ok]

GoesAgain(call, next) ==
    /\ op' = [op EXCEPT !.calls = Append(@, Called(call, TRUE))]
    /\ pc' = pc

Goes(call, next) ==
    /\ op' = [op EXCEPT !.calls = Append(@, Called(call, TRUE))]
    /\ pc' = next

LeavesWithoutFinally(call, ok, result) ==
    /\ op' = [op EXCEPT !.calls = Append(@, Called(call, ok)), !.result = result]
    /\ pc' = "done"

Leaves(call, ok, result) ==
    /\ op' = [op EXCEPT !.calls = Append(@, Called(call, ok)), !.result = result]
    /\ pc' = "cleanup_dir"

\* The call ended with an exception that left the called function; the
\* caller's except Exception returns False, which sends the operation to the
\* finally block.
Raises(call, result) ==
    /\ op' = [op EXCEPT !.calls = Append(@, Called(call, FALSE)), !.result = result,
                        !.raised = @ \cup {call}]
    /\ pc' = "cleanup_dir"

\* _clean_backup_chain: rmtree of the chain root, then makedirs.  An OSError of
\* rmtree may leave any part of the old members behind.
CleanBackupChainKeeps(rmtreeOk) == {chain}

CleanBackupChain(rmtreeOk) ==
    IF rmtreeOk THEN {EmptyChain}
    ELSE {Restrict(chain, S) : S \in SUBSET (DOMAIN chain) \ {{}}}

\* shutil.copytree into the chain member; an error may leave a partial copy
\* (written -id) or nothing behind.
CopyToChain(ok) ==
    IF ok THEN {CopyTree(chain, backup_dir, op.id)}
    ELSE {chain, CopyTree(chain, backup_dir, 0 - op.id)}

\* record_backup_metadata.  "ok": the row is inserted and committed, returns
\* True.  "insert_fails": _init_db succeeded, execute/commit raised, returns
\* False.  "open_fails": _init_db raised; the handler returns False but the
\* finally clause reads the unbound conn, so UnboundLocalError leaves the function.
RecordBackupMetadataReplacing(outcome, backup_type, backup_prefix, local_path) ==
    IF outcome = "ok" THEN <<NewRecord(backup_type, backup_prefix, local_path)>>
    ELSE registry

RecordBackupMetadata(outcome, backup_type, backup_prefix, local_path) ==
    IF outcome = "ok" THEN Append(registry, NewRecord(backup_type, backup_prefix, local_path))
    ELSE registry

RecordOutcomes == {"ok", "insert_fails", "open_fails"}

\* What the caller does with record_backup_metadata: the returned value is
\* not looked at (return True follows); an exception reaches except Exception.
ResultAfterRecordFalse(outcome) == "fail"

ResultAfterRecord(outcome) == IF outcome = "open_fails" THEN "fail" ELSE "ok"

\* ------------------------------------------------------------ perform_full_backup
FullStart ==
    /\ pc = "idle"
    /\ nOps < MaxOps
    /\ nOps' = nOps + 1
    /\ op' = NewOp("full")
    /\ pc' = "setup"
    /\ fullStarted' = TRUE
    /\ UNCHANGED <<clock, registry, chain, staging, archives, remote, uploaded, nCleanupFailures>>
    /\ UNCHANGED <<restoreVars, codecVars, cliVars, adapterVars>>

\* lines 74-78: _clean_backup_chain, makedirs(temp_dir), makedirs(backup_dir)
FullSetup ==
    /\ pc = "setup" /\ op.kind = "full"
    /\ \E outcome \in {"ok", "rmtree_raises", "mk_temp_raises", "mk_chain_raises"} :
         /\ outcome = "rmtree_raises" => DOMAIN chain # {}
         /\ \E c \in CleanBackupChain(outcome # "rmtree_raises") :
              chain' = IF outcome = "ok" THEN MakeDirs(c, backup_dir) ELSE c
         /\ staging' = IF outcome \in {"ok", "mk_chain_raises"} THEN staging \cup {temp_dir} ELSE staging
         /\ IF outcome = "ok" THEN Goes("Reset", "take") ELSE Leaves("Reset", FALSE, "fail")
    /\ UNCHANGED <<clock, nOps, registry, archives, remote, uploaded, nCleanupFailures, fullStarted>>
    /\ UNCHANGED <<restoreVars, codecVars, cliVars, adapterVars>>

\* lines 81-84: mariadb.take_full_backup(temp_dir, config)
FullTake ==
    /\ pc = "take" /\ op.kind = "full"
    /\ \E ok \in BOOLEAN : IF ok THEN Goes("TakeFull", "prepare") ELSE Leaves("TakeFull", FALSE, "fail")
    /\ UNCHANGED <<clock, nOps, registry, chain, staging, archives, remote, uploaded, nCleanupFailures, fullStarted>>
    /\ UNCHANGED <<restoreVars, codecVars, cliVars, adapterVars>>

\* lines 87-90: mariadb.prepare_backup(temp_dir, config=config)
FullPrepare ==
    /\ pc = "prepare" /\ op.kind = "full"
    /\ \E ok \in BOOLEAN : IF ok THEN Goes("Prepare", "copy") ELSE Leaves("Prepare", FALSE, "fail")
    /\ UNCHANGED <<clock, nOps, registry, chain, staging, archives, remote, uploaded, nCleanupFailures, fullStarted>>
    /\ UNCHANGED <<restoreVars, codecVars, cliVars, adapterVars>>

\* ------------------------------------------------------------ perform_incremental_backup
IncStart ==
    /\ pc = "idle"
    /\ nOps < MaxOps
    /\ nOps' = nOps + 1
    /\ op' = NewOp("incremental")
    /\ pc' = "setup"
    /\ UNCHANGED <<clock, registry, chain, staging, archives, remote, uploaded, nCleanupFailures, fullStarted>>
    /\ UNCHANGED <<restoreVars, codecVars, cliVars, adapterVars>>

\* lines 161-162: makedirs(temp_dir), makedirs(backup_dir)
IncSetup ==
    /\ pc = "setup" /\ op.kind = "incremental"
    /\ \E outcome \in {"ok", "mk_temp_raises", "mk_chain_raises"} :
         /\ chain' = IF outcome = "ok" THEN MakeDirs(chain, backup_dir) ELSE chain
         /\ staging' = IF outcome \in {"ok", "mk_chain_raises"} THEN staging \cup {temp_dir} ELSE staging
         /\ IF outcome = "ok" THEN Goes("MakeDirs", "base") ELSE Leaves("MakeDirs", FALSE, "fail")
    /\ UNCHANGED <<clock, nOps, registry, archives, remote, uploaded, nCleanupFailures, fullStarted>>
    /\ UNCHANGED <<restoreVars, codecVars, cliVars, adapterVars>>

\* get_latest_local_backup: the local_path of a row the query returns first,
\* NoPath (None) when no row has one.
get_latest_local_backup == IF LatestRows = {} THEN {NoPath} ELSE {r.local_path : r \in LatestRows}

\* line 166, negated: base_dir and os.path.exists(base_dir)
BaseUsableAlways(base_dir) == TRUE

BaseUsable(base_dir) == base_dir # NoPath /\ base_dir \in DOMAIN chain

\* lines 165-168: base_dir = get_latest_local_backup(config);
\* if not base_dir or not os.path.exists(base_dir): return False.
\* When _init_db raises, get_latest_local_backup's finally clause reads the
\* unbound conn and the error reaches except Exception.
IncBase ==
    /\ pc = "base" /\ op.kind = "incremental"
    /\ \E dbOk \in BOOLEAN :
         IF ~dbOk THEN Raises("LatestLocalPath", "fail")
         ELSE \E base_dir \in get_latest_local_backup :
                /\ op' = [op EXCEPT !.calls = Append(@, Called("LatestLocalPath", TRUE)), !.base = base_dir,
                                    !.result = IF BaseUsable(base_dir) THEN "none" ELSE "fail"]
                /\ pc' = IF BaseUsable(base_dir) THEN "take" ELSE "cleanup_dir"
    /\ UNCHANGED <<clock, nOps, registry, chain, staging, archives, remote, uploaded, nCleanupFailures, fullStarted>>
    /\ UNCHANGED <<restoreVars, codecVars, cliVars, adapterVars>>

\* lines 171-173: mariadb.take_incremental_backup(temp_dir, base_dir, config)
IncTake ==
    /\ pc = "take" /\ op.kind = "incremental"
    /\ \E ok \in BOOLEAN : IF ok THEN Goes("TakeIncremental", "copy") ELSE Leaves("TakeIncremental", FALSE, "fail")
    /\ UNCHANGED <<clock, nOps, registry, chain, staging, archives, remote, uploaded, nCleanupFailures, fullStarted>>
    /\ UNCHANGED <<restoreVars, codecVars, cliVars, adapterVars>>

\* line 93 / line 176: shutil.copytree(temp_dir, backup_dir, dirs_exist_ok=True)
Copy ==
    /\ pc = "copy"
    /\ \E ok \in BOOLEAN :
         /\ chain' \in CopyToChain(ok)
         /\ op' = [op EXCEPT !.calls = Append(@, Called("AppendMember", ok)), !.appended = ok,
                             !.result = IF ok THEN "none" ELSE "fail"]
         /\ pc' = IF ok THEN "compress" ELSE "cleanup_dir"
    /\ UNCHANGED <<clock, nOps, registry, staging, archives, remote, uploaded, nCleanupFailures, fullStarted>>
    /\ UNCHANGED <<restoreVars, codecVars, cliVars, adapterVars>>

\* lines 96-98 / 179-181: utils.compress_directory(temp_dir, compressed_file);
\* a failed tar run may leave a partial archive file behind
Compress ==
    /\ pc = "compress"
    /\ \E ok \in BOOLEAN :
         /\ IF ok THEN archives' = archives \cup {compressed_file}
                  ELSE archives' \in {archives, archives \cup {compressed_file}}
         /\ IF ok THEN Goes("Compress", "upload") ELSE Leaves("Compress", FALSE, "fail")
    /\ UNCHANGED <<clock, nOps, registry, chain, staging, remote, uploaded, nCleanupFailures, fullStarted>>
    /\ UNCHANGED <<restoreVars, codecVars, cliVars, adapterVars>>

\* lines 101-108 / 184-191: s3.upload_file(compressed_file, bucket, s3_prefix, config)
Upload ==
    /\ pc = "upload"
    /\ \E ok \in BOOLEAN :
         /\ remote' = IF ok THEN [remote EXCEPT ![S3Prefix(op.kind)] = op.id] ELSE remote
         /\ uploaded' = IF ok THEN uploaded \cup {op.id} ELSE uploaded
         /\ IF ok THEN Goes("Upload", "record") ELSE Leaves("Upload", FALSE, "fail")
    /\ UNCHANGED <<clock, nOps, registry, chain, staging, archives, nCleanupFailures, fullStarted>>
    /\ UNCHANGED <<restoreVars, codecVars, cliVars, adapterVars>>

\* lines 111-114 / 194-197: record_backup_metadata(config, type, s3_prefix, backup_dir)
Record ==
    /\ pc = "record"
    /\ \E outcome \in RecordOutcomes :
         /\ registry' = RecordBackupMetadata(outcome, op.kind, S3Prefix(op.kind), backup_dir)
         /\ IF outcome = "open_fails" THEN Raises("RecordBackup", ResultAfterRecord(outcome))
            ELSE Leaves("RecordBackup", outcome = "ok", ResultAfterRecord(outcome))
    /\ UNCHANGED <<clock, nOps, chain, staging, archives, remote, uploaded, nCleanupFailures, fullStarted>>
    /\ UNCHANGED <<restoreVars, codecVars, cliVars, adapterVars>>

\* The directory the finally block removes: temp_dir, under LOCAL_TEMP_DIR
\* (not backup_dir, the directory of the same name under the chain root).
CleanupTargetChain == "chain"

CleanupTarget == "staging"

\* lines 129-130 / 212-213: except OSError logs a warning, and the finally
\* block goes on to the compressed file whether the directory was removed or not
AfterRemoveDirEscalating(removed) == IF removed THEN "cleanup_file" ELSE "done"

AfterRemoveDir(removed) == "cleanup_file"

\* finally, lines 125-130 / 208-213: rmtree(temp_dir) if it exists; an OSError
\* is logged as a warning
CleanupDir ==
    /\ pc = "cleanup_dir"
    /\ \E ok \in BOOLEAN :
         /\ ~ok => temp_dir \in staging /\ nCleanupFailures < MaxCleanupFailures
         /\ staging' = IF ok /\ CleanupTarget = "staging" THEN staging \ {temp_dir} ELSE staging
         /\ chain' = IF ok /\ CleanupTarget = "chain" THEN Restrict(chain, DOMAIN chain \ {backup_dir}) ELSE chain
         /\ nCleanupFailures' = IF ok THEN nCleanupFailures ELSE nCleanupFailures + 1
         /\ op' = [op EXCEPT !.calls = Append(@, Called("RemoveStaging", ok))]
         /\ pc' = AfterRemoveDir(ok)
    /\ UNCHANGED <<clock, nOps, registry, archives, remote, uploaded, fullStarted>>
    /\ UNCHANGED <<restoreVars, codecVars, cliVars, adapterVars>>

\* finally, lines 134-139 / 217-222: os.remove(compressed_file) if it exists
CleanupFile ==
    /\ pc = "cleanup_file"
    /\ \E ok \in BOOLEAN :
         /\ ~ok => compressed_file \in archives /\ nCleanupFailures < MaxCleanupFailures
         /\ archives' = IF ok THEN archives \ {compressed_file} ELSE archives
         /\ nCleanupFailures' = IF ok THEN nCleanupFailures ELSE nCleanupFailures + 1
         /\ op' = [op EXCEPT !.calls = Append(@, Called("RemoveArchive", ok))]
    /\ pc' = "done"
    /\ UNCHANGED <<clock, nOps, registry, chain, staging, remote, uploaded, fullStarted>>
    /\ UNCHANGED <<restoreVars, codecVars, cliVars, adapterVars>>

\* The operation has returned op.result to its caller.
Return ==
    /\ pc = "done"
    /\ pc' = "idle"
    /\ op' = NoOp
    /\ UNCHANGED <<clock, nOps, registry, chain, staging, archives, remote, uploaded, nCleanupFailures, fullStarted>>
    /\ UNCHANGED <<restoreVars, codecVars, cliVars, adapterVars>>

NextBackup ==
    \/ Tick
    \/ FullStart \/ FullSetup \/ FullTake \/ FullPrepare
    \/ IncStart \/ IncSetup \/ IncBase \/ IncTake
    \/ Copy \/ Compress \/ Upload \/ Record
    \/ CleanupDir \/ CleanupFile \/ Return

\* Backup operations, one after the other.
Spec == Init /\ [][NextBackup]_vars

\* ------------------------------------------------------------ restore_specific_backup
\* for _ in range(max_retries)
max_retries == 30

Methods == {"copy-back", "move-back", "link-back"}

\* A collaborator call of the running restore is logged; the restore goes on
\* to step next, or returns result at once.
RGoes(call, next) ==
    /\ rs' = [rs EXCEPT !.calls = Append(@, Called(call, TRUE))]
    /\ pc' = next

RReturns(call, result) ==
    /\ rs' = [rs EXCEPT !.calls = Append(@, Called(call, FALSE)), !.result = result]
    /\ pc' = "r_done"

\* lines 34-38: if not prepared_folder: return False, else go on to stop the server
AfterPrepareUnchecked(prepared_folder) == "r_stop"

AfterPrepareSkipsStop(prepared_folder) == IF prepared_folder THEN "r_restore" ELSE "r_done"

AfterPrepare(prepared_folder) == IF prepared_folder THEN "r_stop" ELSE "r_done"

\* lines 45-56: try: restore_backup ... finally: start_mariadb_server.  The
\* finally clause runs whatever restore_backup returned or raised.
AfterRestoreNoFinally(outcome) == IF outcome = "ok" THEN "r_start" ELSE "r_done"

AfterRestore(outcome) == "r_start"

RestoreStart ==
    /\ pc = "idle"
    /\ nRestores < MaxRestores
    /\ nRestores' = nRestores + 1
    /\ \E method \in Methods, isTest \in BOOLEAN : rs' = NewRestore(method, isTest)
    /\ pc' = "r_validate"
    /\ UNCHANGED <<rfiles, server, datadir>>
    /\ UNCHANGED <<backupVars, codecVars, cliVars, adapterVars>>

\* line 25: restore_method not in ['copy-back', 'move-back']
ValidMethodsAny == Methods

ValidMethods == {"copy-back", "move-back"}

\* lines 25-27: if restore_method not in ['copy-back', 'move-back']: return False
RestoreValidate ==
    /\ pc = "r_validate"
    /\ IF rs.method \in ValidMethods
       THEN pc' = "r_makedirs" /\ rs' = rs
       ELSE pc' = "r_done" /\ rs' = [rs EXCEPT !.result = "fail"]
    /\ UNCHANGED <<nRestores, rfiles, server, datadir>>
    /\ UNCHANGED <<backupVars, codecVars, cliVars, adapterVars>>

\* lines 31-32: os.makedirs(local_staging_dir, exist_ok=True); an error
\* reaches except Exception (line 95)
RestoreMakedirs ==
    /\ pc = "r_makedirs"
    /\ \E ok \in BOOLEAN :
         /\ rfiles' = IF ok THEN rfiles \cup {"staging"} ELSE rfiles
         /\ IF ok THEN RGoes("MakeStaging", "r_temp") ELSE RReturns("MakeStaging", "fail")
    /\ UNCHANGED <<nRestores, server, datadir>>
    /\ UNCHANGED <<backupVars, codecVars, cliVars, adapterVars>>

\* download_and_prepare_backup lines 112-119: the bucket name is read from the
\* configuration and the temp directory is made
DownloadTemp ==
    /\ pc = "r_temp"
    /\ \E outcome \in {"ok", "no_bucket", "makedirs_raises"} :
         /\ rfiles' = IF outcome = "ok" THEN rfiles \cup {"temp"} ELSE rfiles
         /\ IF outcome = "ok" THEN RGoes("MakeTemp", "r_download") ELSE RReturns("MakeTemp", "fail")
    /\ UNCHANGED <<nRestores, server, datadir>>
    /\ UNCHANGED <<backupVars, codecVars, cliVars, adapterVars>>

\* The entries of LOCAL_TEMP_DIR the restore writes to (line 118: temp_dir,
\* line 134: extract_dir), next to the chain root of backup.py.
chain_dir == "chain"

RestoreTempDir == "temp"

extract_dirInChain == "chain"

extract_dir == "extracted"

\* The archives hold one top-level directory, named like the staging
\* directory that was compressed (utils.compress_directory, arcname).
ArchiveRoots == {DirName(kind, ts) : kind \in {"full", "incremental"}, ts \in 0..MaxClock}

\* The chain root after the file tar_filename was written into the entry dir
\* of LOCAL_TEMP_DIR.
ChainAfterFile(dir) == IF dir = chain_dir THEN MakeDirs(chain, [k |-> "tar", ts |-> 0]) ELSE chain

\* The chain root after an archive with top-level directory root was
\* extracted into the entry dir of LOCAL_TEMP_DIR.
ChainAfterExtract(dir, root) == IF dir = chain_dir THEN CopyTree(chain, root, 0) ELSE chain

\* s3.download_file(bucket, key, local_file, config): True when the object was
\* written to local_file, False otherwise (ArtifactTransfer.Download); an
\* exception is caught by the caller's except Exception.
download_file == {"ok", "fail"}

\* lines 127-133: if not s3.download_file(...): return False;
\* if not os.path.exists(tar_path): return False
DownloadPassedUnchecked(outcome, exists) == TRUE

DownloadPassed(outcome, exists) == outcome = "ok" /\ exists

\* lines 127-133: the download, then os.path.exists(tar_path)
DownloadFile ==
    /\ pc = "r_download"
    /\ \E outcome \in download_file, written \in BOOLEAN :
         /\ written => outcome = "ok"
         /\ rfiles' = IF written THEN rfiles \cup {"tar"} ELSE rfiles
         /\ chain' = IF written THEN ChainAfterFile(RestoreTempDir) ELSE chain
         /\ IF DownloadPassed(outcome, "tar" \in rfiles') THEN RGoes("Download", "r_decompress")
                                                         ELSE RReturns("Download", "fail")
    /\ UNCHANGED <<nRestores, server, datadir>>
    /\ UNCHANGED <<clock, nOps, op, registry, staging, archives, remote, uploaded, nCleanupFailures, fullStarted>>
    /\ UNCHANGED <<codecVars, cliVars, adapterVars>>

\* lines 134-140: utils.decompress_archive(tar_path, extract_dir); a falsy
\* result returns False
DownloadDecompress ==
    /\ pc = "r_decompress"
    /\ \E ok \in BOOLEAN :
         /\ rfiles' = IF ok THEN rfiles \cup {"extracted"} ELSE rfiles
         /\ \E root \in ArchiveRoots :
              chain' = IF ok THEN ChainAfterExtract(extract_dir, root) ELSE chain
         /\ IF ok THEN RGoes("Decompress", "r_prepare") ELSE RReturns("Decompress", "fail")
    /\ UNCHANGED <<nRestores, server, datadir>>
    /\ UNCHANGED <<clock, nOps, op, registry, staging, archives, remote, uploaded, nCleanupFailures, fullStarted>>
    /\ UNCHANGED <<codecVars, cliVars, adapterVars>>

\* lines 143-148 and 34-38: mariadb.prepare_backup(backup_dir); on success the
\* prepared directory is returned and the restore goes on to stop the server
DownloadPrepare ==
    /\ pc = "r_prepare"
    /\ \E ok \in BOOLEAN :
         /\ rs' = [rs EXCEPT !.calls = Append(@, Called("Prepare", ok)), !.prepared = ok,
                             !.result = IF AfterPrepare(ok) = "r_done" THEN "fail" ELSE "none"]
         /\ pc' = AfterPrepare(ok)
    /\ UNCHANGED <<nRestores, rfiles, server, datadir>>
    /\ UNCHANGED <<backupVars, codecVars, cliVars, adapterVars>>

\* lines 41-43: if not stop_mariadb_server(): return False, else enter the
\* inner try block
AfterStopIgnored(stopped) == "r_restore"

AfterStop(stopped) == IF stopped THEN "r_restore" ELSE "r_done"

\* lines 41-43: stop_mariadb_server() runs the stop command once.  A failed
\* stop command leaves the server in either state.
RestoreStop ==
    /\ pc = "r_stop"
    /\ \E ok \in BOOLEAN :
         /\ IF ok THEN server' = "stopped" ELSE server' \in {server, "stopped"}
         /\ IF AfterStop(ok) = "r_done" THEN RReturns("Stop", "fail")
            ELSE rs' = [rs EXCEPT !.calls = Append(@, Called("Stop", ok))] /\ pc' = AfterStop(ok)
    /\ UNCHANGED <<nRestores, rfiles, datadir>>
    /\ UNCHANGED <<backupVars, codecVars, cliVars, adapterVars>>

\* lines 45-52: mariadb.restore_backup(prepared_folder, config, method): its
\* return value or exception is pending while the finally clause runs.
\* restore_backup empties the data directories before it runs the tool.
RestoreApply ==
    /\ pc = "r_restore"
    /\ \E outcome \in {"ok", "fail", "raise"} :
         /\ datadir' \in (IF outcome = "ok" THEN {"restored"} ELSE {datadir, "cleared"})
         /\ rs' = [rs EXCEPT !.calls = Append(@, Called("Restore", outcome = "ok")), !.pending = outcome,
                             !.result = IF AfterRestore(outcome) = "r_done" THEN "fail" ELSE "none"]
         /\ pc' = AfterRestore(outcome)
    /\ UNCHANGED <<nRestores, rfiles, server>>
    /\ UNCHANGED <<backupVars, codecVars, cliVars, adapterVars>>

\* finally, lines 56-61: if not start_mariadb_server(): return False; the poll
\* is skipped when config IS_TEST is set
RestoreStartServer ==
    /\ pc = "r_start"
    /\ \E ok \in BOOLEAN :
         /\ server' = IF ok THEN "running" ELSE server
         /\ IF ok THEN RGoes("Start", IF rs.isTest THEN "r_exit" ELSE "r_poll")
                  ELSE RReturns("Start", "fail")
    /\ UNCHANGED <<nRestores, rfiles, datadir>>
    /\ UNCHANGED <<backupVars, codecVars, cliVars, adapterVars>>

\* lines 67-93, where the loop goes after a run of SELECT 1 that was the
\* polls-th: "ok" breaks the loop, CalledProcessError sleeps and retries while
\* range(max_retries) lasts, any other error leaves the finally clause for
\* except Exception; an exhausted loop returns False (line 93).
AfterPollUnbounded(outcome, polls) ==
    CASE outcome = "ok" -> "r_exit"
      [] outcome = "raise" -> "r_done"
      [] OTHER -> "r_poll"

AfterPoll(outcome, polls) ==
    CASE outcome = "ok" -> "r_exit"
      [] outcome = "raise" -> "r_done"
      [] OTHER -> IF polls = max_retries THEN "r_done" ELSE "r_poll"

\* finally, lines 63-93: one run of SELECT 1 of the liveness poll
RestorePoll ==
    /\ pc = "r_poll"
    /\ \E outcome \in {"ok", "CalledProcessError", "raise"} :
         /\ rs' = [rs EXCEPT !.polls = @ + 1,
                             !.server_started = (outcome = "ok"),
                             !.result = IF AfterPoll(outcome, rs.polls + 1) = "r_done" THEN "fail" ELSE "none"]
         /\ pc' = AfterPoll(outcome, rs.polls + 1)
    /\ UNCHANGED <<nRestores, rfiles, server, datadir>>
    /\ UNCHANGED <<backupVars, codecVars, cliVars, adapterVars>>

\* The finally clause ends without a return of its own: the pending return
\* value of the try block (lines 49, 52) is returned, a pending exception
\* reaches except Exception (line 95), which returns False.
FinalResultOfStart(pending) == "ok"

FinalResult(pending) == IF pending = "ok" THEN "ok" ELSE "fail"

RestoreExit ==
    /\ pc = "r_exit"
    /\ rs' = [rs EXCEPT !.result = FinalResult(rs.pending)]
    /\ pc' = "r_done"
    /\ UNCHANGED <<nRestores, rfiles, server, datadir>>
    /\ UNCHANGED <<backupVars, codecVars, cliVars, adapterVars>>

\* The restore has returned rs.result to its caller.
RestoreReturn ==
    /\ pc = "r_done"
    /\ pc' = "idle"
    /\ rs' = NoRestore
    /\ UNCHANGED <<nRestores, rfiles, server, datadir>>
    /\ UNCHANGED <<backupVars, codecVars, cliVars, adapterVars>>

NextRestore ==
    \/ RestoreStart \/ RestoreValidate \/ RestoreMakedirs
    \/ DownloadTemp \/ DownloadFile \/ DownloadDecompress \/ DownloadPrepare
    \/ RestoreStop \/ RestoreApply \/ RestoreStartServer \/ RestorePoll
    \/ RestoreExit \/ RestoreReturn

\* Restore operations, one after the other.
SpecRestore == Init /\ [][NextRestore]_vars

\* The local state a successful perform_full_backup leaves behind (n = 1),
\* and the one a successful perform_incremental_backup leaves after it
\* (n = 2): the chain members, the registry rows, the uploaded objects.
AfterBackups(n) ==
    /\ clock = 0
    /\ nOps = n
    /\ op = NoOp
    /\ registry = [i \in 1..n |->
           [id |-> i, backup_type |-> IF i = 1 THEN "full" ELSE "incremental",
            backup_prefix |-> S3Prefix(IF i = 1 THEN "full" ELSE "incremental"),
            local_path |-> DirName(IF i = 1 THEN "full" ELSE "incremental", 0),
            timestamp |-> 0, status |-> "success", op |-> i]]
    /\ chain = [m \in {DirName(IF i = 1 THEN "full" ELSE "incremental", 0) : i \in 1..n} |->
                  IF m = DirName("full", 0) THEN {1} ELSE {2}]
    /\ staging = {}
    /\ archives = {}
    /\ remote = [k \in {"FULL_BACKUP_PREFIX", "INCREMENTAL_BACKUP_PREFIX"} |->
                   IF k = "FULL_BACKUP_PREFIX" THEN 1 ELSE IF n = 2 THEN 2 ELSE 0]
    /\ uploaded = 1..n
    /\ nCleanupFailures = 0
    /\ fullStarted = TRUE

InitAfterBackup ==
    /\ \E n \in 1..2 : AfterBackups(n)
    /\ pc = "idle"
    /\ nRestores = 0
    /\ rs = NoRestore
    /\ rfiles = {}
    /\ server = "running"
    /\ datadir = "live"
    /\ dz = NoDecompress
    /\ cli = NoCli
    /\ rb = NoRb

\* Restore operations on a host where backups have been taken.
SpecRestoreAfterBackup == InitAfterBackup /\ [][NextRestore]_vars

\* The same, where a restore that can take a step does take one: every
\* external call of restore_specific_backup returns.
SpecRestoreFair == SpecRestore /\ WF_vars(NextRestore)

\* ------------------------------------------------------------ mariadb.restore_backup
\* restore_backup(backup_dir, config, method) called on its own, with any
\* method.  nRestores counts these calls too.
RbStart ==
    /\ pc = "idle"
    /\ nRestores < MaxRestores
    /\ nRestores' = nRestores + 1
    /\ \E method \in Methods, configured \in BOOLEAN :
         rb' = [NoRb EXCEPT !.method = method, !.configured = configured, !.datadir0 = datadir]
    /\ pc' = "b_config"
    /\ UNCHANGED <<rs, rfiles, server, datadir>>
    /\ UNCHANGED <<backupVars, codecVars, cliVars>>

\* lines 230-233: datadir = config.get('MARIADB_DATADIR'); if not datadir: return False
RbConfig ==
    /\ pc = "b_config"
    /\ IF rb.configured
       THEN rb' = [rb EXCEPT !.i = 1] /\ pc' = "b_clean"
       ELSE rb' = [rb EXCEPT !.result = "fail"] /\ pc' = "b_done"
    /\ UNCHANGED <<nRestores, rs, rfiles, server, datadir>>
    /\ UNCHANGED <<backupVars, codecVars, cliVars>>

\* lines 241-245
dirs_to_clean == <<"datadir", "innodb_data_dir", "innodb_log_dir">>

\* lines 249-258, one turn of the loop: a directory that exists is removed and
\* made again, empty; an error of rmtree or makedirs returns False and may
\* leave the directory as it was or without its contents.
RbClean ==
    /\ pc = "b_clean"
    /\ \E outcome \in {"absent", "ok", "raise"} :
         /\ datadir' \in (CASE outcome = "absent" -> {datadir}
                            [] outcome = "ok" -> {"cleared"}
                            [] OTHER -> {datadir, "cleared"})
         /\ IF outcome = "raise"
            THEN rb' = [rb EXCEPT !.result = "fail"] /\ pc' = "b_done"
            ELSE /\ rb' = [rb EXCEPT !.i = IF rb.i < Len(dirs_to_clean) THEN rb.i + 1 ELSE 0]
                 /\ pc' = IF rb.i < Len(dirs_to_clean) THEN "b_clean" ELSE "b_command"
    /\ UNCHANGED <<nRestores, rs, rfiles, server>>
    /\ UNCHANGED <<backupVars, codecVars, cliVars>>

\* lines 292-299: the flag of the command; any other method returns False
RestoreFlags == {"copy-back", "move-back"}

\* lines 287-299: the command is built
RbCommand ==
    /\ pc = "b_command"
    /\ IF rb.method \in RestoreFlags
       THEN rb' = rb /\ pc' = "b_run"
       ELSE rb' = [rb EXCEPT !.result = "fail"] /\ pc' = "b_done"
    /\ UNCHANGED <<nRestores, rs, rfiles, server, datadir>>
    /\ UNCHANGED <<backupVars, codecVars, cliVars>>

\* lines 316-end: subprocess.run(command, check=True), then chown; a failed
\* run of the tool may have copied some files
RbRun ==
    /\ pc = "b_run"
    /\ \E outcome \in {"ok", "tool_fails", "chown_fails"} :
         /\ datadir' \in (IF outcome = "tool_fails" THEN {datadir, "partial"} ELSE {"restored"})
         /\ rb' = [rb EXCEPT !.calls = Append(@, Called("Tool", outcome # "tool_fails")),
                             !.result = IF outcome = "ok" THEN "ok" ELSE "fail"]
         /\ pc' = "b_done"
    /\ UNCHANGED <<nRestores, rs, rfiles, server>>
    /\ UNCHANGED <<backupVars, codecVars, cliVars>>

\* restore_backup has returned rb.result to its caller.
RbReturn ==
    /\ pc = "b_done"
    /\ pc' = "idle"
    /\ rb' = NoRb
    /\ UNCHANGED <<nRestores, rs, rfiles, server, datadir>>
    /\ UNCHANGED <<backupVars, codecVars, cliVars>>

NextAdapter == RbStart \/ RbConfig \/ RbClean \/ RbCommand \/ RbRun \/ RbReturn

\* Calls of mariadb.restore_backup, one after the other.
SpecAdapter == Init /\ [][NextAdapter]_vars

\* ------------------------------------------------------------ utils.decompress_archive
\* Member names an archive may carry: a, a/b, a..b, /a, /etc/passwd-like
\* /a/b, ../a, ../../a, a/../b
MemberNames ==
    { <<"a">>, <<"a", "/", "b">>, <<"a", ".", ".", "b">>,
      <<"/", "a">>, <<"/", "a", "/", "b">>,
      <<".", ".", "/", "a">>, <<".", ".", "/", ".", ".", "/", "a">>,
      <<"a", "/", ".", ".", "/", "b">> }

RECURSIVE SeqsUpTo(_, _)
SeqsUpTo(S, n) ==
    IF n = 0 THEN {<<>>}
    ELSE LET shorter == SeqsUpTo(S, n - 1)
         IN  shorter \cup {Append(q, x) : q \in {r \in shorter : Len(r) = n - 1}, x \in S}

Archives == SeqsUpTo(MemberNames, MaxMembers)

\* line 67: member.name.startswith('/') or '..' in member.name
SuspiciousIfAbsolute(name) == Len(name) >= 1 /\ name[1] = "/"

Suspicious(name) ==
    \/ Len(name) >= 1 /\ name[1] = "/"
    \/ \E i \in 1..(Len(name) - 1) : name[i] = "." /\ name[i + 1] = "."

\* lines 55-64: the archive path is checked and the output directory made,
\* then tarfile.open; FileNotFoundError, another OSError or a TarError is
\* caught at line 73 and False is returned
DecompressOpen ==
    /\ pc = "idle"
    /\ \E tar \in Archives, ok \in BOOLEAN :
         /\ dz' = [NoDecompress EXCEPT !.tar = tar, !.result = IF ok THEN "none" ELSE "fail"]
         /\ pc' = IF ok THEN "d_check" ELSE "d_done"
    /\ UNCHANGED <<backupVars, restoreVars, cliVars, adapterVars>>

\* lines 66-68: the loop over tar.getmembers(); a suspicious name raises
\* ValueError, which line 73 catches: return False
DecompressCheck ==
    /\ pc = "d_check"
    /\ IF dz.checked = Len(dz.tar)
       THEN pc' = "d_extract" /\ dz' = dz
       ELSE IF Suspicious(dz.tar[dz.checked + 1])
            THEN pc' = "d_done" /\ dz' = [dz EXCEPT !.result = "fail"]
            ELSE pc' = "d_check" /\ dz' = [dz EXCEPT !.checked = @ + 1]
    /\ UNCHANGED <<backupVars, restoreVars, cliVars, adapterVars>>

\* line 70: tar.extractall(path): the members are written in archive order;
\* an OSError or TarError on the way leaves those already written and
\* returns False; after the last member the extracted path is returned
DecompressExtract ==
    /\ pc = "d_extract"
    /\ LET n == Cardinality(dz.extracted)
       IN  \/ /\ n < Len(dz.tar)
              /\ dz' = [dz EXCEPT !.extracted = @ \cup {n + 1}]
              /\ pc' = "d_extract"
           \/ /\ n < Len(dz.tar)
              /\ dz' = [dz EXCEPT !.result = "fail"]
              /\ pc' = "d_done"
           \/ /\ n = Len(dz.tar)
              /\ dz' = [dz EXCEPT !.result = "ok"]
              /\ pc' = "d_done"
    /\ UNCHANGED <<backupVars, restoreVars, cliVars, adapterVars>>

\* decompress_archive has returned dz.result to its caller.
DecompressReturn ==
    /\ pc = "d_done"
    /\ pc' = "idle"
    /\ dz' = NoDecompress
    /\ UNCHANGED <<backupVars, restoreVars, cliVars, adapterVars>>

NextCodec == DecompressOpen \/ DecompressCheck \/ DecompressExtract \/ DecompressReturn

\* Calls of decompress_archive on archives of up to MaxMembers members.
SpecCodec == Init /\ [][NextCodec]_vars

\* ------------------------------------------------------------ compress_directory, decompress_archive
\* Names of directories and stems of archive file names: the strings of up
\* to MaxStem characters over d, t and the dot, "." and ".." excepted.
Stems == SeqsUpTo({"d", "t", "."}, MaxStem) \ {<<>>, <<".">>, <<".", ".">>}

TarGz == <<".", "t", "a", "r", ".", "g", "z">>

\* str.removesuffix(suffix): the string without the suffix it ends with
RemoveSuffix(str, suffix) ==
    IF /\ Len(str) >= Len(suffix)
       /\ SubSeq(str, Len(str) - Len(suffix) + 1, Len(str)) = suffix
    THEN SubSeq(str, 1, Len(str) - Len(suffix))
    ELSE str

\* str.rstrip(chars): the string without its longest tail made of
\* characters that occur in chars
RECURSIVE rstrip(_, _)
rstrip(str, chars) ==
    IF str # <<>> /\ \E i \in DOMAIN chars : chars[i] = str[Len(str)]
    THEN rstrip(SubSeq(str, 1, Len(str) - 1), chars)
    ELSE str

\* utils.py line 72: archive_path.name.rstrip('.tar.gz')
ReturnedName(name) == rstrip(name, TarGz)

\* compress_directory(dir_path, output_path), lines 25-34: the archive file
\* output_path holds the directory under arcname dir_path.name; an OSError
\* or TarError returns False
RoundTripCompress ==
    /\ pc = "idle"
    /\ \E dir \in Stems, stem \in Stems, ok \in BOOLEAN :
         /\ dz' = [NoDecompress EXCEPT !.tar = <<dir>>, !.name = stem \o TarGz,
                                       !.result = IF ok THEN "none" ELSE "fail"]
         /\ pc' = IF ok THEN "t_decompress" ELSE "t_done"
    /\ UNCHANGED <<backupVars, restoreVars, cliVars, adapterVars>>

\* decompress_archive(archive_path, output_path), lines 54-75, on the archive
\* just written: the member check, extractall, and the returned path
RoundTripDecompress ==
    /\ pc = "t_decompress"
    /\ \E ok \in BOOLEAN :
         IF ok /\ ~Suspicious(dz.tar[1])
         THEN dz' = [dz EXCEPT !.checked = 1, !.extracted = {1}, !.result = "ok",
                              !.returned = ReturnedName(dz.name)]
         ELSE dz' = [dz EXCEPT !.result = "fail"]
    /\ pc' = "t_done"
    /\ UNCHANGED <<backupVars, restoreVars, cliVars, adapterVars>>

\* The caller has the result of the round trip.
RoundTripReturn ==
    /\ pc = "t_done"
    /\ pc' = "idle"
    /\ dz' = NoDecompress
    /\ UNCHANGED <<backupVars, restoreVars, cliVars, adapterVars>>

NextRoundTrip == RoundTripCompress \/ RoundTripDecompress \/ RoundTripReturn

\* A directory is compressed and the archive decompressed again.
SpecRoundTrip == Init /\ [][NextRoundTrip]_vars

\* ------------------------------------------------------------ cli.main
\* What s3.list_objects may return for a prefix: the keys under it, each once,
\* in the order the listing gives them; [] when the listing fails.
Listings ==
    UNION {{l \in [1..n -> 1..MaxKeys] : \A i, j \in 1..n : i # j => l[i] # l[j]} : n \in 0..MaxKeys}

\* sorted(objects, reverse=True)
RECURSIVE SortedReverse(_)
SortedReverse(objects) ==
    IF objects = <<>> THEN <<>>
    ELSE LET i == CHOOSE i \in DOMAIN objects : \A j \in DOMAIN objects : objects[j] <= objects[i]
             rest == [j \in 1..(Len(objects) - 1) |-> IF j < i THEN objects[j] ELSE objects[j + 1]]
         IN  <<objects[i]>> \o SortedReverse(rest)

\* s3.get_latest_backup_prefix: None for an empty listing, else the first of
\* the keys sorted in descending order
get_latest_backup_prefix(objects) ==
    IF objects = <<>> THEN 0 ELSE SortedReverse(objects)[1]

\* cli.py lines 71, 79: backups[-1] if backups else None
LastListed(backups) == IF backups = <<>> THEN 0 ELSE backups[Len(backups)]

\* The names bound in module cli: its imports (lines 1-13) and its functions
ModuleNames ==
    {"load_config", "validate_config", "setup_logger", "log_info", "log_error",
     "perform_full_backup", "perform_incremental_backup", "restore_specific_backup",
     "list_objects", "ensure_directory", "handle_backup", "handle_restore", "handle_list", "main"}

\* line 51: sum([bool(args.backup_id), args.latest_full, args.latest_incremental]) != 1
TargetsGiven(args) ==
    (IF args.backup_id # 0 THEN 1 ELSE 0) + (IF args.latest_full THEN 1 ELSE 0)
       + (IF args.latest_incremental THEN 1 ELSE 0)

OneTargetAtLeast(args) == TargetsGiven(args) >= 1

OneTarget(args) == TargetsGiven(args) = 1

\* line 59: 'move-back' if args.move_back else 'copy-back'
restore_method(args) == IF args.move_back THEN "move-back" ELSE "copy-back"

\* line 195: return 0 if success else 1
ExitCodeZero(success) == 0

ExitCode(success) == IF success = "ok" THEN 0 ELSE 1

\* A call made by a handler, with the argument that matters and its result.
CliCalled(call, arg, method, ok) == [c |-> call, arg |-> arg, method |-> method, ok |-> ok]

\* cli.main is run: parse_args has accepted the command line.
CliStart ==
    /\ pc = "idle"
    /\ \E command \in {"backup", "restore", "list", "none"},
          posix \in BOOLEAN, euid \in {0, 1000}, configValid \in BOOLEAN :
         \/ /\ command = "backup"
            /\ \E full \in BOOLEAN, objs \in Listings :
                 cli' = [NoCli EXCEPT !.command = command, !.posix = posix, !.euid = euid,
                                      !.configValid = configValid, !.full = full,
                                      !.objects = [@ EXCEPT !["FULL_BACKUP_PREFIX"] = objs]]
         \/ /\ command = "restore"
            /\ \E backup_id \in 0..MaxKeys, latest_full, latest_incremental, move_back, copy_back \in BOOLEAN,
                  fulls, incs \in Listings :
                 cli' = [NoCli EXCEPT !.command = command, !.posix = posix, !.euid = euid,
                                      !.configValid = configValid, !.backup_id = backup_id,
                                      !.latest_full = latest_full, !.latest_incremental = latest_incremental,
                                      !.move_back = move_back, !.copy_back = copy_back,
                                      !.objects = [@ EXCEPT !["FULL_BACKUP_PREFIX"] = fulls,
                                                            !["INCREMENTAL_BACKUP_PREFIX"] = incs]]
         \/ /\ command \in {"list", "none"}
            /\ cli' = [NoCli EXCEPT !.command = command, !.posix = posix, !.euid = euid,
                                    !.configValid = configValid]
    /\ pc' = "c_main"
    /\ UNCHANGED <<backupVars, restoreVars, codecVars, adapterVars>>

\* main, lines 165-193: the root check, load_config / validate_config,
\* setup_logger (an exception of these reaches line 197), then the handler of
\* the command; without a command the help is printed and 0 returned
CliMain ==
    /\ pc = "c_main"
    /\ \E raises \in BOOLEAN :
         IF cli.command \in {"backup", "restore"} /\ cli.posix /\ cli.euid # 0
         THEN cli' = [cli EXCEPT !.exit = 1] /\ pc' = "c_exit"
         ELSE IF raises \/ ~cli.configValid
         THEN cli' = [cli EXCEPT !.exit = 1] /\ pc' = "c_exit"
         ELSE IF cli.command = "none"
         THEN cli' = [cli EXCEPT !.exit = 0] /\ pc' = "c_exit"
         ELSE cli' = cli /\ pc' = (CASE cli.command = "backup" -> "c_backup"
                                      [] cli.command = "restore" -> "c_restore"
                                      [] OTHER -> "c_list")
    /\ UNCHANGED <<backupVars, restoreVars, codecVars, adapterVars>>

\* handle_backup, lines 17-46.  A name that is not bound in the module raises
\* NameError when the call is reached, which except Exception turns into False.
CliHandleBackup ==
    /\ pc = "c_backup"
    /\ \E dirOk, result \in BOOLEAN :
         LET made == Append(cli.calls, CliCalled("ensure_directory", 0, "none", dirOk))
         IN  IF ~dirOk THEN cli' = [cli EXCEPT !.calls = made, !.success = "fail"]
             ELSE IF cli.full
             THEN cli' = [cli EXCEPT !.calls = Append(made, CliCalled("perform_full_backup", 0, "none", result)),
                                     !.success = IF result THEN "ok" ELSE "fail"]
             ELSE IF "get_latest_full_backup_prefix" \notin ModuleNames
             THEN cli' = [cli EXCEPT !.calls = made, !.success = "fail"]
             ELSE LET base_prefix == get_latest_backup_prefix(cli.objects["FULL_BACKUP_PREFIX"])
                  IN  IF base_prefix = 0 THEN cli' = [cli EXCEPT !.calls = made, !.success = "fail"]
                      ELSE cli' = [cli EXCEPT !.calls = Append(made, CliCalled("perform_incremental_backup", base_prefix, "none", result)),
                                              !.success = IF result THEN "ok" ELSE "fail"]
    /\ pc' = "c_return"
    /\ UNCHANGED <<backupVars, restoreVars, codecVars, adapterVars>>

\* handle_restore, lines 50-98
CliHandleRestore ==
    /\ pc = "c_restore"
    /\ \E result \in BOOLEAN :
         IF ~OneTarget(cli) THEN cli' = [cli EXCEPT !.success = "fail"]
         ELSE IF cli.move_back /\ cli.copy_back THEN cli' = [cli EXCEPT !.success = "fail"]
         ELSE LET backup_identifier ==
                      IF cli.latest_full THEN LastListed(cli.objects["FULL_BACKUP_PREFIX"])
                      ELSE IF cli.latest_incremental THEN LastListed(cli.objects["INCREMENTAL_BACKUP_PREFIX"])
                      ELSE cli.backup_id
              IN  IF backup_identifier = 0 THEN cli' = [cli EXCEPT !.success = "fail"]
                  ELSE cli' = [cli EXCEPT !.calls = Append(@, CliCalled("restore_specific_backup", backup_identifier,
                                                                        restore_method(cli), result)),
                                          !.success = IF result THEN "ok" ELSE "fail"]
    /\ pc' = "c_return"
    /\ UNCHANGED <<backupVars, restoreVars, codecVars, adapterVars>>

\* handle_list, lines 102-139: two listings are printed; an exception of the
\* printing returns False
CliHandleList ==
    /\ pc = "c_list"
    /\ \E ok \in BOOLEAN :
         cli' = [cli EXCEPT !.calls = @ \o <<CliCalled("list_objects", 0, "none", TRUE), CliCalled("list_objects", 0, "none", TRUE)>>,
                            !.success = IF ok THEN "ok" ELSE "fail"]
    /\ pc' = "c_return"
    /\ UNCHANGED <<backupVars, restoreVars, codecVars, adapterVars>>

\* main, line 195
CliReturn ==
    /\ pc = "c_return"
    /\ cli' = [cli EXCEPT !.exit = ExitCode(cli.success)]
    /\ pc' = "c_exit"
    /\ UNCHANGED <<backupVars, restoreVars, codecVars, adapterVars>>

\* sys.exit(main()): the process ends with cli.exit.
CliExit ==
    /\ pc = "c_exit"
    /\ cli' = NoCli
    /\ pc' = "idle"
    /\ UNCHANGED <<backupVars, restoreVars, codecVars, adapterVars>>

NextCli == CliStart \/ CliMain \/ CliHandleBackup \/ CliHandleRestore \/ CliHandleList \/ CliReturn \/ CliExit

\* Runs of the command line, one after the other.
SpecCli == Init /\ [][NextCli]_vars

\* ------------------------------------------------------------ properties
Invoked(calls, c) == \E i \in DOMAIN calls : calls[i].c = c
Succeeded(calls, c) == \E i \in DOMAIN calls : calls[i] = Called(c, TRUE)
Failed(calls, c) == \E i \in DOMAIN calls : calls[i] = Called(c, FALSE)
Times(calls, c) == Cardinality({i \in DOMAIN calls : calls[i].c = c})

\* Backup operations that have run to their end.
FinishedOps == IF op.id = 0 \/ pc = "done" THEN 1..nOps ELSE 1..(nOps - 1)

Recorded(id) == \E r \in Rows : r.op = id

\* C1: for every finished backup operation, the registry holds a record of
\* it if and only if its archive upload succeeded.
C1_RecordIffUploaded == \A id \in FinishedOps : Recorded(id) <=> id \in uploaded

\* C2: when a restore has ended after a successful Stop, Start was invoked
\* exactly once, after the Restore step, whatever that step did; and when
\* Restore did not succeed the restore's result is failure.
C2_StartOnceAfterStop ==
    /\ Times(rs.calls, "Start") <= 1
    /\ (pc = "r_done" /\ Succeeded(rs.calls, "Stop")) =>
          /\ Times(rs.calls, "Start") = 1
          /\ Times(rs.calls, "Stop") = 1
          /\ \E i, j, k \in DOMAIN rs.calls :
                i < j /\ j < k /\ rs.calls[i].c = "Stop" /\ rs.calls[j].c = "Restore" /\ rs.calls[k].c = "Start"
          /\ (rs.pending # "ok" => rs.result = "fail")

\* C2 witness: a restore that ended with a failed Restore step, one Start and
\* result failure (scenario D).
C2_Witness ==
    /\ pc = "r_done" /\ Succeeded(rs.calls, "Stop") /\ rs.pending = "fail"
    /\ Times(rs.calls, "Start") = 1 /\ rs.result = "fail"

\* C3: Stop is invoked only after download, decompression and Prepare have
\* succeeded, in that order; when one of them failed the restore's result is
\* failure and neither Stop nor Start was invoked.
C3_StopOnlyAfterPrepared ==
    /\ \A s \in DOMAIN rs.calls : rs.calls[s].c \in {"Stop", "Start"} =>
          \E i, j, k \in DOMAIN rs.calls :
             /\ i < j /\ j < k /\ k < s
             /\ rs.calls[i] = Called("Download", TRUE)
             /\ rs.calls[j] = Called("Decompress", TRUE)
             /\ rs.calls[k] = Called("Prepare", TRUE)
    /\ (pc = "r_done" /\ \E c \in {"Download", "Decompress", "Prepare"} : Failed(rs.calls, c)) =>
          /\ rs.result = "fail"
          /\ ~Invoked(rs.calls, "Stop")
          /\ ~Invoked(rs.calls, "Start")

\* C3 witness: a restore that ended because Prepare failed.
C3_Witness == pc = "r_done" /\ Failed(rs.calls, "Prepare") /\ rs.result = "fail"

\* C4 as claimed: once a PerformFull has run, whatever step failed, the chain
\* holds that backup's prepared output as its only member.
C4_ChainIsThisFull ==
    (pc = "done" /\ op.kind = "full") => (DOMAIN chain = {backup_dir} /\ chain[backup_dir] = {op.id})

\* C4 amended: once the reset and directory creation of a PerformFull have
\* run without error, the chain root holds exactly one member, the directory
\* named for that backup, with nothing of an earlier operation in it; the
\* member holds the backup's prepared output exactly when TakeFull, Prepare
\* and the copy succeeded, and is otherwise empty or a partial copy.
C4_ChainResetByFull ==
    (op.kind = "full" /\ Succeeded(op.calls, "Reset")) =>
       /\ DOMAIN chain = {backup_dir}
       /\ chain[backup_dir] \subseteq {op.id, 0 - op.id}
       /\ (op.id \in chain[backup_dir]) <=>
             (Succeeded(op.calls, "TakeFull") /\ Succeeded(op.calls, "Prepare") /\ Succeeded(op.calls, "AppendMember"))

\* C4 witness: Full, Incremental, Full (scenario E): the second Full is done,
\* the chain held the first chain's incremental when it started and holds
\* only the second Full's output now.
C4_Witness ==
    /\ pc = "done" /\ op.kind = "full" /\ op.result = "ok"
    /\ \E n \in DOMAIN op.chain0 : n.k = "inc" /\ op.chain0[n] # {}
    /\ DOMAIN chain = {backup_dir} /\ chain[backup_dir] = {op.id}

\* C5: a PerformIncremental run when no PerformFull has run before (the chain
\* holds no backup) returns failure, and TakeIncremental is not invoked.
C5_IncrementalNeedsFull ==
    (op.kind = "incremental" /\ ~op.priorFull) =>
       /\ ~Invoked(op.calls, "TakeIncremental")
       /\ pc = "done" => op.result = "fail"

\* C5 witness: an incremental with no Full before it has looked for its base
\* and ended (scenario C).
C5_Witness ==
    /\ pc = "done" /\ op.kind = "incremental" /\ ~op.priorFull
    /\ Succeeded(op.calls, "LatestLocalPath") /\ op.result = "fail"

\* The member most recently appended to the chain by a copy that completed:
\* operations are numbered in the order they run.
Appended(c) == {n \in DOMAIN c : \E id \in c[n] : id > 0}
LatestMember(c) ==
    IF Appended(c) = {} THEN NoPath
    ELSE CHOOSE n \in Appended(c) : \E id \in c[n] : \A m \in Appended(c) : \A jd \in c[m] : jd <= id

C7_LatestIsNthMember ==
    (/\ pc = "idle" /\ nOps >= 1 /\ Len(registry) = nOps
     /\ registry[1].backup_type = "full"
     /\ \A i \in 2..nOps : registry[i].backup_type = "incremental")
    => get_latest_local_backup = {registry[nOps].local_path}

\* C8: a chain member that holds a copy stays in the chain, with that copy,
\* through every step but the chain reset of a PerformFull.
C8_MemberNotRolledBack ==
    [][(\A n \in DOMAIN chain : chain[n] # {} => (n \in DOMAIN chain' /\ chain[n] \subseteq chain'[n]))
       \/ (pc = "setup" /\ op.kind = "full")]_vars

\* C8 witness: an operation that appended its member and then failed has
\* ended with the member still in the chain.
C8_Witness ==
    /\ pc = "done" /\ op.appended /\ op.result = "fail"
    /\ backup_dir \in DOMAIN chain /\ op.id \in chain[backup_dir]

\* C9 as claimed: a backup operation that returns failure leaves the registry
\* and the chain as they were before it.
C9_FailureLeavesNoTrace ==
    (pc = "done" /\ op.result = "fail") => (registry = op.registry0 /\ chain = op.chain0)

\* C9 amended: a backup operation that returns failure leaves the registry as
\* it was before it (the chain may have been reset or extended).
C9_FailureLeavesRegistry ==
    (pc = "done" /\ op.result = "fail") => registry = op.registry0

\* C9 witness: an operation has returned failure after it uploaded its
\* archive, and the chain is not what it was.
C9_Witness ==
    /\ pc = "done" /\ op.result = "fail" /\ op.id \in uploaded
    /\ chain # op.chain0 /\ registry = op.registry0

\* C10: a backup operation that returns success has added exactly one record,
\* of its own type, with status success.
C10_SuccessWritesOneRecord ==
    (pc = "done" /\ op.result = "ok") =>
       /\ Len(registry) = Len(op.registry0) + 1
       /\ registry[Len(registry)].backup_type = op.kind
       /\ registry[Len(registry)].status = "success"
       /\ registry[Len(registry)].op = op.id

\* C11: a restore returns success only if download, decompression, Prepare,
\* Stop, Restore and Start all succeeded and, outside test mode, the liveness
\* poll found the server; and a restore whose Restore step failed returns
\* failure, also when Start and the poll succeeded after it.
C11_SuccessNeedsEveryStep ==
    /\ (pc = "r_done" /\ rs.result = "ok") =>
          /\ \A c \in {"Download", "Decompress", "Prepare", "Stop", "Restore", "Start"} : Succeeded(rs.calls, c)
          /\ ~rs.isTest => rs.server_started
    /\ (pc = "r_done" /\ Failed(rs.calls, "Restore")) => rs.result = "fail"

\* C11 witness: outside test mode the Restore step failed, Start succeeded,
\* the poll found the server, and the restore returned failure.
C11_Witness ==
    /\ pc = "r_done" /\ ~rs.isTest /\ Failed(rs.calls, "Restore")
    /\ Succeeded(rs.calls, "Start") /\ rs.server_started /\ rs.result = "fail"

\* C12: when Stop has failed the restore ends at once with failure: Stop was
\* invoked once, and neither Restore nor Start is invoked.
C12_StopFailureAborts ==
    Failed(rs.calls, "Stop") =>
       /\ Times(rs.calls, "Stop") = 1
       /\ ~Invoked(rs.calls, "Restore")
       /\ ~Invoked(rs.calls, "Start")
       /\ pc = "r_done" /\ rs.result = "fail"

\* C12 witness: a restore that prepared its backup has ended at a failed Stop.
C12_Witness ==
    /\ pc = "r_done" /\ Succeeded(rs.calls, "Prepare") /\ Failed(rs.calls, "Stop")
    /\ rs.result = "fail"

\* C13: every step of a restore called with a method other than copy-back or
\* move-back leaves the staging area, the server, the data directories and
\* all backup state as they are, invokes no collaborator, and the restore
\* returns failure.
C13_InvalidMethodNoEffect ==
    [][(rs.method \notin {"copy-back", "move-back", "none"}) =>
          /\ UNCHANGED <<rfiles, server, datadir, backupVars>>
          /\ rs'.calls = <<>>
          /\ pc' \in {"r_done", "idle"}
          /\ pc' = "r_done" => rs'.result = "fail"]_vars

\* C13 witness: a restore called with link-back has returned failure, having
\* invoked nothing.
C13_Witness ==
    pc = "r_done" /\ rs.method = "link-back" /\ rs.result = "fail" /\ rs.calls = <<>>

\* C14: the liveness poll runs only outside test mode and after a successful
\* Start, makes at most max_retries attempts, makes no attempt after one that
\* succeeded, and a restore whose poll never found the server returns failure
\* whatever the Restore step did; and every restore that has begun ends.
C14_PollBoundedAndEnds ==
    /\ [](/\ rs.polls <= max_retries
          /\ rs.isTest => rs.polls = 0
          /\ rs.polls > 0 => Succeeded(rs.calls, "Start")
          /\ pc = "r_poll" => ~rs.server_started
          /\ (pc = "r_done" /\ ~rs.isTest /\ Succeeded(rs.calls, "Start") /\ ~rs.server_started)
                => rs.result = "fail")
    /\ ((pc # "idle") ~> (pc = "idle"))

\* C14 witness: the Restore step succeeded, every one of the max_retries
\* attempts failed, and the restore has returned failure.
C14_Witness ==
    /\ pc = "r_done" /\ rs.pending = "ok" /\ rs.polls = max_retries
    /\ ~rs.server_started /\ rs.result = "fail"

\* C15: a backup operation returns only through the finally block, whatever
\* ended its try block: removal of the staging directory and of the archive
\* file have both been attempted, and after a removal that succeeded the
\* staging directory (the archive file) does not exist.
C15_CleanupOnEveryExit ==
    (pc = "done") =>
       /\ Times(op.calls, "RemoveStaging") = 1
       /\ Times(op.calls, "RemoveArchive") = 1
       /\ Succeeded(op.calls, "RemoveStaging") => temp_dir \notin staging
       /\ Succeeded(op.calls, "RemoveArchive") => compressed_file \notin archives

\* C15 witness: a PerformFull that made its staging directory and failed at
\* TakeFull has ended with no record and no staging directory (scenario B).
C15_Witness ==
    /\ pc = "done" /\ op.kind = "full" /\ Failed(op.calls, "TakeFull")
    /\ Succeeded(op.calls, "RemoveStaging") /\ temp_dir \notin staging /\ registry = <<>>

\* C16: the steps of the finally block leave the result of the try block as
\* it is, and the removal of the archive file follows the removal of the
\* staging directory whether that removal failed or not.
C16_CleanupFailureNotEscalated ==
    [][/\ pc = "cleanup_dir" => (pc' = "cleanup_file" /\ op'.result = op.result)
       /\ pc = "cleanup_file" => (pc' = "done" /\ op'.result = op.result
                                    /\ Invoked(op'.calls, "RemoveStaging") /\ Invoked(op'.calls, "RemoveArchive"))]_vars

\* C16 witness: an operation whose try block returned success has returned
\* success after the removal of its staging directory failed and the removal
\* of its archive file was attempted.
C16_Witness ==
    /\ pc = "done" /\ op.result = "ok" /\ Failed(op.calls, "RemoveStaging")
    /\ Succeeded(op.calls, "RemoveArchive") /\ temp_dir \in staging

\* C17: every backup whose upload succeeded still has its own object in the
\* bucket: no later upload went to the same key and replaced it.
C17_ArtifactsNeverOverwritten ==
    \A id \in uploaded : \E k \in DOMAIN remote : remote[k] = id

\* A member name that is an absolute path, or that has a segment "..".
IsAbsolute(name) == Len(name) >= 1 /\ name[1] = "/"
HasParentSegment(name) ==
    \E i \in 1..(Len(name) - 1) :
       /\ name[i] = "." /\ name[i + 1] = "."
       /\ (i = 1 \/ name[i - 1] = "/")
       /\ (i + 1 = Len(name) \/ name[i + 2] = "/")
Unsafe(tar) == \E i \in DOMAIN tar : IsAbsolute(tar[i]) \/ HasParentSegment(tar[i])

\* C18: a decompress_archive call on an archive with a member whose name is
\* absolute or has a parent-directory segment extracts no member, at any
\* point of the call, and returns failure.
C18_UnsafeArchiveExtractsNothing ==
    Unsafe(dz.tar) =>
       /\ dz.extracted = {}
       /\ pc # "d_extract"
       /\ pc = "d_done" => dz.result = "fail"

\* C18 witness: the first member of the archive is harmless, the second has
\* a parent-directory segment; the call has returned failure with nothing extracted.
C18_Witness ==
    /\ pc = "d_done" /\ Len(dz.tar) = 2 /\ dz.checked = 1
    /\ ~Suspicious(dz.tar[1]) /\ HasParentSegment(dz.tar[2])
    /\ dz.extracted = {} /\ dz.result = "fail"

\* C19: every step leaves the records the registry holds as they are, in
\* their place, and may only add records after them; every record has
\* status success.
C19_RegistryAppendOnly ==
    [][/\ Len(registry') >= Len(registry)
       /\ SubSeq(registry', 1, Len(registry)) = registry
       /\ \A i \in DOMAIN registry' : registry'[i].status = "success"]_vars

\* C19 witness: an operation that found a record in the registry has opened
\* the database again (CREATE TABLE IF NOT EXISTS) and added its own.
C19_Witness ==
    /\ pc = "done" /\ Len(op.registry0) >= 1 /\ Len(registry) = Len(op.registry0) + 1
    /\ SubSeq(registry, 1, Len(op.registry0)) = op.registry0

\* C20: every result of list_backups_from_db lists all records, the one
\* created later before the one created earlier.
C20_ListNewestFirst ==
    \A f \in list_backups_from_db : \A i, j \in 1..Len(registry) : i < j => f[i] > f[j]

\* The lexicographically greatest key of a listing, 0 (none) when it is empty.
Greatest(l) == IF l = <<>> THEN 0 ELSE CHOOSE k \in {l[i] : i \in DOMAIN l} : \A j \in DOMAIN l : l[j] <= k

\* C21: get_latest_backup_prefix yields the greatest key of every listing,
\* and a restore run with --latest-full or --latest-incremental restores the
\* greatest key listed under that prefix, in whatever order the keys are
\* listed; with no key listed it fails and restores nothing.
C21_LatestIsGreatestKey ==
    /\ \A l \in Listings : get_latest_backup_prefix(l) = Greatest(l)
    /\ (/\ pc = "c_return" /\ cli.command = "restore" /\ TargetsGiven(cli) = 1
        /\ ~(cli.move_back /\ cli.copy_back) /\ cli.backup_id = 0) =>
          LET l == cli.objects[IF cli.latest_full THEN "FULL_BACKUP_PREFIX" ELSE "INCREMENTAL_BACKUP_PREFIX"]
          IN  IF l = <<>> THEN cli.calls = <<>> /\ cli.success = "fail"
              ELSE Len(cli.calls) = 1 /\ cli.calls[1].arg = Greatest(l)

\* C22: a backup run without --full whose temporary directory exists calls
\* perform_incremental_backup with the latest full backup key and returns
\* its result when the bucket holds a full backup, and fails without the
\* call when it holds none.
C22_IncrementalUsesLatestFull ==
    (/\ pc = "c_return" /\ cli.command = "backup" /\ ~cli.full
     /\ cli.calls # <<>> /\ cli.calls[1].ok) =>
       LET l == cli.objects["FULL_BACKUP_PREFIX"]
       IN  IF l = <<>> THEN Len(cli.calls) = 1 /\ cli.success = "fail"
           ELSE /\ Len(cli.calls) = 2
                /\ cli.calls[2].c = "perform_incremental_backup"
                /\ cli.calls[2].arg = Greatest(l)
                /\ cli.success = (IF cli.calls[2].ok THEN "ok" ELSE "fail")

\* C23: handle_restore calls restore_specific_backup only when exactly one
\* of backup_id, --latest-full, --latest-incremental is given and not both
\* --move-back and --copy-back; otherwise it fails without the call.  The
\* method it passes is move-back when --move-back is set, else copy-back.
C23_RestoreArgumentsChecked ==
    (pc = "c_return" /\ cli.command = "restore") =>
       /\ (TargetsGiven(cli) # 1 \/ (cli.move_back /\ cli.copy_back)) => (cli.calls = <<>> /\ cli.success = "fail")
       /\ \A i \in DOMAIN cli.calls :
             /\ cli.calls[i].c = "restore_specific_backup"
             /\ cli.calls[i].method = IF cli.move_back THEN "move-back" ELSE "copy-back"

\* C23 witness: a restore of a given backup_id with --move-back has called
\* restore_specific_backup with method move-back.
C23_Witness ==
    /\ pc = "c_return" /\ cli.command = "restore" /\ cli.backup_id # 0 /\ cli.move_back
    /\ Len(cli.calls) = 1 /\ cli.calls[1].arg = cli.backup_id /\ cli.calls[1].method = "move-back"

\* C24: main ends with exit code 0 or 1; for a backup, restore or list
\* command the code is 0 exactly when the handler returned success; a
\* backup or restore run by a user other than root (on POSIX) and a run with
\* an invalid configuration end with 1 and no handler call.
C24_ExitCodeIsResult ==
    (pc = "c_exit") =>
       /\ cli.exit \in {0, 1}
       /\ cli.command \in {"backup", "restore", "list"} => (cli.exit = 0 <=> cli.success = "ok")
       /\ (cli.command \in {"backup", "restore"} /\ cli.posix /\ cli.euid # 0) => (cli.exit = 1 /\ cli.calls = <<>>)
       /\ ~cli.configValid => (cli.exit = 1 /\ cli.calls = <<>>)

\* C24 witness: a restore command whose restore_specific_backup call failed
\* has ended with exit code 1.
C24_Witness ==
    /\ pc = "c_exit" /\ cli.command = "restore" /\ Len(cli.calls) = 1
    /\ ~cli.calls[1].ok /\ cli.success = "fail" /\ cli.exit = 1

\* The steps of the try block an operation has run, in order (the removals
\* of the finally block left out).
IsStep(called) == called.c \notin {"RemoveStaging", "RemoveArchive"}
Steps(calls) == SelectSeq(calls, IsStep)
FullOrder == <<"Reset", "TakeFull", "Prepare", "AppendMember", "Compress", "Upload", "RecordBackup">>

\* C25: the steps a PerformFull has run are a beginning of Reset, TakeFull,
\* Prepare, AppendMember, Compress, Upload, RecordBackup, each once, and
\* every step but the last one run has succeeded.
C25_FullStepsInOrder ==
    (op.kind = "full") =>
       LET st == Steps(op.calls)
       IN  /\ Len(st) <= Len(FullOrder)
           /\ \A i \in DOMAIN st : st[i].c = FullOrder[i] /\ (i < Len(st) => st[i].ok)

\* C25 witness: a PerformFull whose Prepare failed has ended after Reset,
\* TakeFull and Prepare, with no copy, compression, upload or record.
C25_Witness ==
    /\ pc = "done" /\ op.kind = "full" /\ Failed(op.calls, "Prepare")
    /\ Len(Steps(op.calls)) = 3 /\ op.result = "fail" /\ op.id \notin uploaded

\* C26: Restore is invoked at most once, after a Stop that succeeded and
\* before any Start, and the server is stopped when it is invoked.
C26_RestoreWhileStopped ==
    /\ Times(rs.calls, "Restore") <= 1
    /\ \A i \in DOMAIN rs.calls : rs.calls[i].c = "Restore" =>
          /\ \E j \in 1..(i - 1) : rs.calls[j] = Called("Stop", TRUE)
          /\ \A j \in 1..(i - 1) : rs.calls[j].c # "Start"
    /\ pc = "r_restore" => server = "stopped"

\* C26 witness: Restore has been invoked on the stopped server and Start has
\* not been invoked yet.
C26_Witness ==
    /\ pc = "r_start" /\ Succeeded(rs.calls, "Stop") /\ Invoked(rs.calls, "Restore")
    /\ ~Invoked(rs.calls, "Start") /\ server = "stopped"

\* The backup-tool step of the running operation has succeeded.
ToolStepSucceeded ==
    IF op.kind = "full" THEN Succeeded(op.calls, "TakeFull") /\ Succeeded(op.calls, "Prepare")
    ELSE Succeeded(op.calls, "TakeIncremental")

\* C27: the running operation's member directory is under the chain root,
\* not having been there when the operation began, only if the operation's
\* backup-tool step has succeeded.
C27_MemberOnlyAfterToolStep ==
    (op.id # 0 /\ backup_dir \in DOMAIN chain /\ backup_dir \notin DOMAIN op.chain0) => ToolStepSucceeded

\* C28: the chain root is empty, or holds exactly one Full member, and what
\* its Incremental members hold was copied after what the Full member holds.
C28_ChainIsFullThenIncrementals ==
    \/ DOMAIN chain = {}
    \/ /\ Cardinality({n \in DOMAIN chain : n.k = "full"}) = 1
       /\ \A f, n \in DOMAIN chain : (f.k = "full" /\ n.k = "inc") =>
             \A a \in chain[f], b \in chain[n] : (IF a < 0 THEN 0 - a ELSE a) < (IF b < 0 THEN 0 - b ELSE b)

\* C29: an operation that has copied its member into the chain has run
\* Prepare successfully before, whether Full or Incremental; and an
\* Incremental that uploaded its archive has not prepared it.
C29_ChainMembersPrepared ==
    /\ Succeeded(op.calls, "AppendMember") => Succeeded(op.calls, "Prepare")
    /\ (op.kind = "incremental" /\ Succeeded(op.calls, "Upload")) => ~Invoked(op.calls, "Prepare")
\* C30: restore_specific_backup leaves the local chain and the registry
\* alone: no step of a restore, whatever its outcome, changes the contents
\* of the chain root or the rows of the registry.
C30_RestoreLeavesChainAndRegistry == [][chain' = chain /\ registry' = registry]_vars

\* C30 witness: a restore has gone through download, extraction and the
\* restore tool and returns success on a host whose chain holds both a full
\* and an incremental member and whose registry holds their rows.
C30_Witness ==
    /\ pc = "r_done" /\ rs.result = "ok"
    /\ DOMAIN chain = {DirName("full", 0), DirName("incremental", 0)}
    /\ Len(registry) = 2
    /\ {"tar", "extracted"} \subseteq rfiles

\* C31: each restore works in a staging area that is created fresh and whose
\* removal is attempted when the restore ends: a restore starts with nothing
\* under the staging directory, and a restore that made the staging
\* directory has attempted to remove it when it returns.
C31_StagingFreshAndRemoved ==
    /\ pc = "r_validate" => rfiles = {}
    /\ (pc = "r_done" /\ Succeeded(rs.calls, "MakeStaging")) => Invoked(rs.calls, "RemoveStaging")

\* C32: no failure leaves record_backup_metadata or get_latest_local_backup
\* as an exception: whatever happens, also when the registry cannot be
\* opened, the function returns a value to the operation that called it.
C32_NoExceptionEscapes == op.raised = {}

\* C33: every append creates a chain member under a name no member had
\* before, also for two operations started within the same second: the member
\* an operation has appended holds the copy of that operation only, and an
\* incremental operation did not find a member of that name in the chain.
C33_AppendedMemberIsNew ==
    (op.id # 0 /\ op.appended) =>
        /\ backup_dir \in DOMAIN chain
        /\ chain[backup_dir] = {op.id}
        /\ op.kind = "incremental" => backup_dir \notin DOMAIN op.chain0

\* C34: the staging phase of a restore runs download, decompress, prepare in
\* this order, each only after the one before it succeeded: decompress is
\* invoked only after a successful download that left the archive file on
\* disk, prepare only after a successful decompress, and the prepared
\* directory is returned only when all three succeeded.
C34_StagingStepsInOrder ==
    /\ Invoked(rs.calls, "Decompress") => (Succeeded(rs.calls, "Download") /\ "tar" \in rfiles)
    /\ Invoked(rs.calls, "Prepare") => Succeeded(rs.calls, "Decompress")
    /\ rs.prepared => /\ Succeeded(rs.calls, "Download")
                      /\ Succeeded(rs.calls, "Decompress")
                      /\ Succeeded(rs.calls, "Prepare")
    /\ \A i, j \in DOMAIN rs.calls :
          /\ (rs.calls[i].c = "Download" /\ rs.calls[j].c \in {"Decompress", "Prepare"}) => i < j
          /\ (rs.calls[i].c = "Decompress" /\ rs.calls[j].c = "Prepare") => i < j

\* C34 witness: the staging phase has returned the prepared directory after
\* all three steps succeeded, and the restore is about to stop the server.
C34_Witness ==
    /\ pc = "r_stop" /\ rs.prepared
    /\ Succeeded(rs.calls, "Download") /\ Succeeded(rs.calls, "Decompress") /\ Succeeded(rs.calls, "Prepare")

\* C35: whenever get_latest_local_backup returns a path between two
\* operations, that path is a member directory that exists in the chain.
C35_LatestPathExists ==
    pc = "idle" => \A base_dir \in get_latest_local_backup : base_dir # NoPath => base_dir \in DOMAIN chain

\* C36: the backup tool is never asked for an incremental backup on a base
\* directory that does not exist: an incremental operation that has invoked
\* take_incremental_backup has a base that is a directory of the chain, and
\* one whose latest recorded path is missing or gone has failed without
\* invoking the tool.
C36_BaseExistsAtTake ==
    op.kind = "incremental" =>
        /\ Invoked(op.calls, "TakeIncremental") => (op.base # NoPath /\ op.base \in DOMAIN chain)
        /\ (Succeeded(op.calls, "LatestLocalPath") /\ (op.base = NoPath \/ op.base \notin DOMAIN chain)) =>
              (op.result = "fail" /\ ~Invoked(op.calls, "TakeIncremental"))

\* C36 witness: the registry's latest local path names a member that a later
\* chain reset has destroyed, and the incremental operation has failed at
\* the base lookup without invoking the tool.
C36_Witness ==
    /\ op.kind = "incremental" /\ pc = "done"
    /\ op.base # NoPath /\ op.base \notin DOMAIN chain
    /\ op.result = "fail" /\ ~Invoked(op.calls, "TakeIncremental")

\* C37: a registry record describes the artifacts of the operation that
\* wrote it: its type is the operation's kind, its remote key is the key the
\* operation uploaded its archive to, and its local path is the chain member
\* the operation appended.
C37_RecordDescribesOperation ==
    \A r \in Rows : r.op = op.id =>
        /\ r.backup_type = op.kind
        /\ op.id \in uploaded /\ r.backup_prefix \in DOMAIN remote /\ remote[r.backup_prefix] = op.id
        /\ r.local_path = backup_dir
        /\ op.appended /\ r.local_path \in DOMAIN chain /\ op.id \in chain[r.local_path]

\* C37 witness: an incremental operation has written its record.
C37_Witness ==
    /\ op.kind = "incremental" /\ pc = "cleanup_dir"
    /\ \E r \in Rows : r.op = op.id /\ r.backup_type = "incremental"

\* C38: restore_backup called with a method other than copy-back or
\* move-back returns failure without running the backup tool and leaves the
\* data directories as it found them.
C38_InvalidMethodLeavesData ==
    (pc = "b_done" /\ rb.method \notin {"copy-back", "move-back"}) =>
        /\ rb.result = "fail"
        /\ ~Invoked(rb.calls, "Tool")
        /\ datadir = rb.datadir0

\* C39: round trip of the codec: when a directory was compressed into an
\* archive file and that file decompressed, the path returned ends in the
\* archive's file name with exactly the suffix .tar.gz removed, and this is
\* the extracted copy of the directory when the archive was named after it.
C39_RoundTripReturnsExtractedCopy ==
    (pc = "t_done" /\ dz.result = "ok") =>
        /\ dz.returned = RemoveSuffix(dz.name, TarGz)
        /\ RemoveSuffix(dz.name, TarGz) = dz.tar[1] => dz.returned = dz.tar[1]
====
